---- MODULE Spec2Model ----
(***************************************************************************)
(* AzureDevOpsProject.get_work_items_hierarchy                             *)
(* (src/AzureDevOpsClientModels.py): the link rows of a WIQL query are     *)
(* turned into relation tuples, the work items they mention are fetched    *)
(* into work_items_dict, children are attached to their parents, roots     *)
(* are collected, roots and child lists are sorted by work item type and   *)
(* the forest is serialised with WorkItemDetails.to_dict.                  *)
(***************************************************************************)
EXTENDS Integers, Sequences, FiniteSets, TLC

\* ---------------------------------------------------------------- bounds
\* Work item ids are 1..MaxId; a response holds at most MaxRows link rows.
MaxId == 3
MaxRows == 2

ItemIds == 1..MaxId

\* ------------------------------------------------------------ the inputs
\* A link row whose 'source' is missing or null: relation.get('source') is falsy.
NoSource == 0

\* The item request of an id answered with a status other than 200.
NotFound == "NotFound"

\* One row of response.json()['workItemRelations'].
LinkRows == [source : {NoSource} \cup ItemIds, target : ItemIds]

\* System.WorkItemType values of the remote service; the last two are
\* types the rank table of sort_by_type does not name.
WorkItemTypes == <<"Task", "Epic", "Bug", "Feature", "Issue", "User Story">>

Range(s) == {s[k] : k \in 1..Len(s)}

\* All sequences over S of length at most n.
SeqsUpTo(S, n) == UNION {[1..k -> S] : k \in 0..n}

\* ------------------------------------------------------------- the state
VARIABLES
    rows,             \* workItemRelations of the query response
    remote,           \* per id: the type the item request returns, or NotFound
    pc,               \* position in get_work_items_hierarchy
    idx,              \* the row the extraction loop is at
    relations,        \* relations: (source_id, target_id) tuples
    dict_keys,        \* work_items_dict: its keys in insertion order
    work_items_dict,  \* work_items_dict: id -> WorkItemDetails
    child_items,      \* child_items
    root_items,       \* root_items: ids of the objects in the list
    returned,         \* "pending", "json" (hierarchy_json returned) or "None"
    raised,           \* the exception `except Exception` caught, "" when none
    hierarchy,        \* hierarchy_dict, the value hierarchy_json encodes
    remote_fields,    \* per id: the keys of item_data['fields'] besides the type
    details,          \* per object: title, comment_count, priority, assigned_to
    earlier,          \* what the earlier calls of the method returned
    client,           \* the attributes of the AzureDevOpsProject object (self)
    epics,            \* the service's Epics titled 'Documentation': area paths
    phase_prev,       \* the caller's call of get/set_current_phase before the last
    phase_last,       \* the caller's last call of get/set_current_phase
    projects,         \* the projects queued for creation on the service
    cp_out,           \* the last call of create_project and how it ended
    context_variables,\* agent_test.context_variables
    agent_prev,       \* the agent utility function called before the last
    agent_last,       \* the last agent utility function called
    repo_files,       \* the README.md files of the repository: path -> content
    folder_prev,      \* the call of add_folder before the last
    folder_last,      \* the last call of add_folder and what it pushed
    transfer_last,    \* the last call of transfer_to_product_owner
    all_teams,        \* the teams get_all_teams returns
    member_of,        \* the ids of the teams the user is a member of
    user,             \* what find_user has for the user
    teams_last,       \* the last call of list_user_teams
    fd_version,       \* which force_delete_directory runs
    dir,              \* the directory: whether it exists, and its entries
    attempt,          \* force_delete_directory: attempt
    fd_pc,            \* force_delete_directory: "idle", "loop" or "returned"
    fd_result,        \* force_delete_directory: what it returned
    fd_log            \* the iterations, failed removals and failed chmods so far

\* The variables of the parts of the program a call of
\* get_work_items_hierarchy has nothing to do with.
outside == <<epics, phase_prev, phase_last, projects, cp_out,
             context_variables, agent_prev, agent_last, repo_files, folder_prev,
             folder_last, transfer_last, all_teams, member_of, user, teams_last,
             fd_version, dir, attempt, fd_pc, fd_result, fd_log>>

\* The variables of get_work_items_hierarchy.
build == <<rows, remote, pc, idx, relations, dict_keys, work_items_dict,
           child_items, root_items, returned, raised, hierarchy,
           remote_fields, details, earlier>>

\* The variables of the phase, of create_project, of the agent utility
\* functions and of add_folder.
phase_vars == <<epics, phase_prev, phase_last>>
project_vars == <<projects, cp_out>>
agent_vars == <<context_variables, agent_prev, agent_last, transfer_last>>
folder_vars == <<repo_files, folder_prev, folder_last>>

\* The variables of list_user_teams and of force_delete_directory.
teams_vars == <<all_teams, member_of, user, teams_last>>
delete_vars == <<fd_version, dir, attempt, fd_pc, fd_result, fd_log>>

vars == <<rows, remote, pc, idx, relations, dict_keys, work_items_dict,
          child_items, root_items, returned, raised, hierarchy,
          remote_fields, details, earlier, client, outside>>

\* ---------------------------------------------------------------- values
\* A str is the sequence of its characters; None is a value no str equals.
None == <<"None">>

\* The item response of an id that holds no System.WorkItemType.
Absent == "Absent"

\* The keys of item_data['fields'] the model follows besides the type;
\* displayName is the key inside the System.AssignedTo object.
FieldKeys == {"System.Title", "System.CommentCount",
              "Microsoft.VSTS.Common.Priority", "System.AssignedTo", "displayName"}

\* The values the service holds under those keys.
FieldValue(id, key) ==
    CASE key = "System.Title" -> "Title"
      [] key = "System.CommentCount" -> 5
      [] key = "Microsoft.VSTS.Common.Priority" -> 2
      [] key = "System.AssignedTo" ->
            [k \in {"displayName"} \cap remote_fields[id] |-> "Dev"]
      [] key = "System.WorkItemType" -> remote[id]

\* fields = item_data['fields'] of the item response of id.
ItemFields(id) ==
    [key \in (remote_fields[id] \ {"displayName"})
              \cup (IF remote[id] = Absent THEN {} ELSE {"System.WorkItemType"})
        |-> FieldValue(id, key)]

\* dict.get(key, default)
Get(dict, key, default) == IF key \in DOMAIN dict THEN dict[key] ELSE default

\* fields.get('System.AssignedTo', {}).get('displayName', '')
DisplayName(fields) ==
    IF "System.AssignedTo" \in DOMAIN fields
    THEN Get(fields["System.AssignedTo"], "displayName", "")
    ELSE ""

\* A variant of DetailsOf: a missing title becomes 'Untitled'.
DetailsOfUntitled(fields) ==
    [title |-> Get(fields, "System.Title", "Untitled"),
     comment_count |-> Get(fields, "System.CommentCount", 0),
     priority |-> Get(fields, "Microsoft.VSTS.Common.Priority", 0),
     assigned_to |-> DisplayName(fields)]

\* The keyword arguments of WorkItemDetails(...) taken from fields.
DetailsOf(fields) ==
    [title |-> Get(fields, "System.Title", ""),
     comment_count |-> Get(fields, "System.CommentCount", 0),
     priority |-> Get(fields, "Microsoft.VSTS.Common.Priority", 0),
     assigned_to |-> DisplayName(fields)]

\* --------------------------------------------------- WorkItemDetails etc.
\* WorkItemDetails(..., work_item_type=..., items=[]): the fields the
\* hierarchy depends on; items holds the ids of the referenced objects.
WorkItemDetails(id, type) == [id |-> id, work_item_type |-> type, items |-> <<>>]

\* A variant of FetchOK: the status code of the item request is not looked at.
FetchOKUnchecked(id) == TRUE

\* item_response.status_code == 200
FetchOK(id) == remote[id] # NotFound

\* A variant of IdsOfRow: the target is fetched also when the row has no source.
IdsOfRowTargetAlways(row) ==
    IF row.source # NoSource THEN <<row.source, row.target>> ELSE <<row.target>>

\* The ids one row makes the loop look at: none when the row has no source.
IdsOfRow(row) ==
    IF row.source # NoSource THEN <<row.source, row.target>> ELSE <<>>

\* A variant of RelationsAfter: the tuple is recorded whether or not the
\* row has a source.
RelationsAfterAnyRow(rels, row) == Append(rels, <<row.source, row.target>>)

\* relations.append((source_id, target_id)) under `if relation.get('source')`
RelationsAfter(rels, row) ==
    IF row.source # NoSource THEN Append(rels, <<row.source, row.target>>) ELSE rels

\* `if item_id not in work_items_dict` ... `if status_code == 200`: the key
\* order of work_items_dict after looking at id.
KeysAfterFetch(keys, id) ==
    IF id \notin Range(keys) /\ FetchOK(id) THEN Append(keys, id) ELSE keys

RECURSIVE KeysAfterFetches(_, _)
KeysAfterFetches(keys, ids) ==
    IF ids = <<>> THEN keys
    ELSE KeysAfterFetches(KeysAfterFetch(keys, Head(ids)), Tail(ids))

\* work_items_dict[item_id] = WorkItemDetails(...) for every new key; the
\* objects the dict holds already stay as they are.
DictAfterFetches(d, keys) ==
    [id \in Range(keys) |->
        IF id \in DOMAIN d THEN d[id]
        ELSE WorkItemDetails(id, Get(ItemFields(id), "System.WorkItemType", ""))]

\* The other attributes of the objects of the keys.
DetailsAfterFetches(keys) == [id \in Range(keys) |-> DetailsOf(ItemFields(id))]

\* A variant of NewWorkItemsDict: the dict outlives the call.
KeptWorkItemsDict(d) == d

\* work_items_dict = {} at the start of every call, whatever an earlier
\* call left in its own dict.
NewWorkItemsDict(d) == <<>>

\* A variant of SelfAfterCall: the forest is stored in self.items.
SelfWithItems(self, forest) == [self EXCEPT !.items = forest]

\* The attributes of self after the call: the method assigns to locals only.
SelfAfterCall(self, forest) == self

\* `if source_id in work_items_dict and target_id in work_items_dict`
CanAttach(d, source_id, target_id) ==
    source_id \in DOMAIN d /\ target_id \in DOMAIN d

\* A variant of Attach: source and target are mixed up.
AttachSwapped(d, rel) ==
    IF CanAttach(d, rel[1], rel[2])
    THEN [d EXCEPT ![rel[2]].items = Append(@, rel[1])]
    ELSE d

\* work_items_dict[source_id].items.append(work_items_dict[target_id])
Attach(d, rel) ==
    IF CanAttach(d, rel[1], rel[2])
    THEN [d EXCEPT ![rel[1]].items = Append(@, rel[2])]
    ELSE d

RECURSIVE AttachAll(_, _)
AttachAll(d, rels) ==
    IF rels = <<>> THEN d ELSE AttachAll(Attach(d, Head(rels)), Tail(rels))

\* A variant of ChildItemsOf: child_items.add moved under the `if` of the
\* attachment, so that only attached targets are marked.
ChildItemsAttached(rels) ==
    {rels[k][2] : k \in {j \in 1..Len(rels) : FetchOK(rels[j][1]) /\ FetchOK(rels[j][2])}}

\* child_items.add(target_id) for every relation tuple.
ChildItemsOf(rels) == {rels[k][2] : k \in 1..Len(rels)}

\* A variant of CollectRootItems: every object is taken for a root.
CollectAllItems(keys, children) == keys

\* for item_id in work_items_dict: if item_id not in child_items: append
RECURSIVE CollectRootItems(_, _)
CollectRootItems(keys, children) ==
    IF keys = <<>> THEN <<>>
    ELSE IF Head(keys) \notin children
         THEN <<Head(keys)>> \o CollectRootItems(Tail(keys), children)
         ELSE CollectRootItems(Tail(keys), children)

\* A variant of sort_by_type: the key of the table is 'UserStory'.
sort_by_type_misspelt(type) ==
    CASE type = "Epic" -> 0
      [] type = "Feature" -> 1
      [] type = "UserStory" -> 2
      [] type = "Task" -> 3
      [] OTHER -> 999

\* sort_by_type: type_order.get(item.work_item_type, 999)
sort_by_type(type) ==
    CASE type = "Epic" -> 0
      [] type = "Feature" -> 1
      [] type = "User Story" -> 2
      [] type = "Task" -> 3
      [] OTHER -> 999

\* A variant of SortPosition: among equal keys the later element goes first.
SortPositionTiesReversed(keyOf, i) ==
    Cardinality({j \in DOMAIN keyOf :
                    keyOf[j] < keyOf[i] \/ (keyOf[j] = keyOf[i] /\ j >= i)})

\* list.sort(key=sort_by_type) is stable: the element at index i goes behind
\* every element of smaller key and every earlier element of equal key.
SortPosition(keyOf, i) ==
    Cardinality({j \in DOMAIN keyOf :
                    keyOf[j] < keyOf[i] \/ (keyOf[j] = keyOf[i] /\ j <= i)})

ListSort(ids, d) ==
    LET keyOf == [k \in 1..Len(ids) |-> sort_by_type(d[ids[k]].work_item_type)]
    IN [p \in 1..Len(ids) |->
           ids[CHOOSE i \in 1..Len(ids) : SortPosition(keyOf, i) = p]]

\* for item in work_items_dict.values(): item.items.sort(key=sort_by_type)
SortAllItems(d) == [id \in DOMAIN d |-> [d[id] EXCEPT !.items = ListSort(@, d)]]

\* WorkItemDetails.to_dict calls itself once per level of nesting.  A chain
\* of calls longer than the number of objects is inside a cycle of items
\* references and never ends by itself: the interpreter stops it with
\* RecursionError.  TRUE iff to_dict of id, entered with `depth` calls left,
\* runs into that.
RECURSIVE RecursionError(_, _, _)
RecursionError(d, id, depth) ==
    IF depth = 0 THEN TRUE
    ELSE \E k \in 1..Len(d[id].items) : RecursionError(d, d[id].items[k], depth - 1)

\* A variant of to_dict: the children are converted without their own items.
to_dict_one_level(d, id) ==
    [id |-> id,
     work_item_type |-> d[id].work_item_type,
     items |-> [k \in 1..Len(d[id].items) |->
                  [id |-> d[id].items[k],
                   work_item_type |-> d[d[id].items[k]].work_item_type,
                   items |-> <<>>]]]

\* WorkItemDetails.to_dict: the node and, recursively, its items.
RECURSIVE to_dict(_, _)
to_dict(d, id) ==
    [id |-> id,
     work_item_type |-> d[id].work_item_type,
     items |-> [k \in 1..Len(d[id].items) |-> to_dict(d, d[id].items[k])]]

\* hierarchy_dict = [item.to_dict() for item in root_items]
HierarchyDict(d, roots) == [k \in 1..Len(roots) |-> to_dict(d, roots[k])]

\* ------------------------------------------------------------ the start
Fresh ==
    /\ pc = "start"
    /\ idx = 1
    /\ relations = <<>>
    /\ dict_keys = <<>>
    /\ work_items_dict = <<>>
    /\ child_items = {}
    /\ root_items = <<>>
    /\ returned = "pending"
    /\ raised = ""
    /\ hierarchy = <<>>
    /\ details = <<>>
    /\ earlier = <<>>

\* AzureDevOpsProject.__init__: the attributes the model follows.
ConstructedClient ==
    [project_name |-> None, team_name |-> None, repo_name |-> None,
     name |-> None, items |-> None]

\* Every key of fields is there for every item.
AllFields(ids) == [id \in ids |-> FieldKeys]

\* No call of get_current_phase or set_current_phase was made yet.
NoPhaseCall ==
    [op |-> "none", arg |-> <<>>, result |-> None, raised |-> FALSE,
     before |-> <<>>]

\* No call of create_project was made yet.
NoProjectCall ==
    [op |-> "none", arg |-> <<>>, outcome |-> "", result |-> "",
     raised |-> "", before |-> ConstructedClient, queued |-> {}]

\* No agent utility function was called yet.
NoAgentCall == [op |-> "none", arg |-> <<>>, result |-> None, raised |-> ""]

\* No call of transfer_to_product_owner was made yet.
NoTransfer ==
    [op |-> "none", before |-> <<>>, after |-> <<>>, key |-> None,
     wrote |-> None, raised |-> ""]

\* No call of add_folder was made yet.
NoFolderCall ==
    [op |-> "none", folder_path |-> <<>>, description |-> None,
     outcome |-> "", result |-> FALSE, pushed |-> <<>>, before |-> <<>>]

PhaseIdle ==
    /\ epics = <<>>
    /\ phase_prev = NoPhaseCall
    /\ phase_last = NoPhaseCall

ProjectIdle ==
    /\ projects = {}
    /\ cp_out = NoProjectCall

AgentIdle ==
    /\ context_variables = <<>>
    /\ agent_prev = NoAgentCall
    /\ agent_last = NoAgentCall
    /\ transfer_last = NoTransfer

FolderIdle ==
    /\ repo_files = <<>>
    /\ folder_prev = NoFolderCall
    /\ folder_last = NoFolderCall

\* No call of list_user_teams was made yet.
NoTeamsCall ==
    [op |-> "none", returned |-> "", result |-> <<>>, raised |-> ""]

TeamsIdle ==
    /\ all_teams = <<>>
    /\ member_of = {}
    /\ user = "found"
    /\ teams_last = NoTeamsCall

\* force_delete_directory is not running and there is no directory.
DeleteIdle ==
    /\ fd_version = ""
    /\ dir = [exists |-> FALSE, read_only |-> <<>>]
    /\ attempt = 0
    /\ fd_pc = "idle"
    /\ fd_result = "pending"
    /\ fd_log = [iterations |-> 0, removals_failed |-> 0, chmods_failed |-> 0]

\* The other parts of the program at rest.
OutsideIdle ==
    /\ PhaseIdle
    /\ ProjectIdle
    /\ AgentIdle
    /\ FolderIdle
    /\ TeamsIdle
    /\ DeleteIdle

\* No call of get_work_items_hierarchy is under way and the service holds
\* no linked items.
BuildIdle ==
    /\ rows = <<>>
    /\ remote = <<>>
    /\ remote_fields = <<>>
    /\ Fresh

\* The type the remote service holds for id i in the general specification.
TypeOfId(i) == WorkItemTypes[((i - 1) % Len(WorkItemTypes)) + 1]

\* Any link rows; any set of items the service can deliver.
Init ==
    /\ rows \in SeqsUpTo(LinkRows, MaxRows)
    /\ remote \in {[i \in ItemIds |-> IF i \in A THEN TypeOfId(i) ELSE NotFound] :
                     A \in SUBSET ItemIds}
    /\ remote_fields = AllFields(ItemIds)
    /\ client = ConstructedClient
    /\ Fresh
    /\ OutsideIdle

\* The specification of the ordering: five items, all delivered, of any
\* types, linked as one parent of four children (Star), as four parents
\* of one child (Fan: four roots) or in two levels (TwoLevels).
SortIds == {1, 2, 3, 4, 5}
Star == <<[source |-> 1, target |-> 2], [source |-> 1, target |-> 3],
          [source |-> 1, target |-> 4], [source |-> 1, target |-> 5]>>
Fan == <<[source |-> 1, target |-> 5], [source |-> 2, target |-> 5],
         [source |-> 3, target |-> 5], [source |-> 4, target |-> 5]>>
TwoLevels == <<[source |-> 1, target |-> 2], [source |-> 1, target |-> 3],
               [source |-> 2, target |-> 4], [source |-> 2, target |-> 5]>>
SortShapes == {Star, Fan, TwoLevels}

InitSort ==
    /\ rows \in SortShapes
    /\ remote \in [SortIds -> Range(WorkItemTypes)]
    /\ remote_fields = AllFields(SortIds)
    /\ client = ConstructedClient
    /\ Fresh
    /\ OutsideIdle

\* ----------------------------------------------------------- the actions
\* requests.post(...); response.raise_for_status(): any failure is caught
\* by `except Exception` and the call returns None.
QueryLinks ==
    /\ pc = "start"
    /\ \E ok \in BOOLEAN :
          IF ok THEN /\ pc' = "extract"
                     /\ UNCHANGED <<returned, raised>>
                ELSE /\ pc' = "done"
                     /\ returned' = "None"
                     /\ raised' = "HTTPError"
    /\ UNCHANGED <<rows, remote, idx, relations, dict_keys, work_items_dict,
                   child_items, root_items, hierarchy>>
    /\ UNCHANGED <<remote_fields, details, earlier, client, outside>>

\* One turn of `for relation in response.json().get('workItemRelations', [])`.
ExtractRelation ==
    /\ pc = "extract"
    /\ idx <= Len(rows)
    /\ relations' = RelationsAfter(relations, rows[idx])
    /\ dict_keys' = KeysAfterFetches(dict_keys, IdsOfRow(rows[idx]))
    /\ work_items_dict' = DictAfterFetches(work_items_dict, dict_keys')
    /\ details' = DetailsAfterFetches(dict_keys')
    /\ idx' = idx + 1
    /\ UNCHANGED <<rows, remote, pc, child_items, root_items, returned, raised,
                   hierarchy>>
    /\ UNCHANGED <<remote_fields, earlier, client, outside>>

\* `for source_id, target_id in relations`: mark children, attach them.
IdentifyChildren ==
    /\ pc = "extract"
    /\ idx > Len(rows)
    /\ child_items' = ChildItemsOf(relations)
    /\ work_items_dict' = AttachAll(work_items_dict, relations)
    /\ pc' = "roots"
    /\ UNCHANGED <<rows, remote, idx, relations, dict_keys, root_items,
                   returned, raised, hierarchy>>
    /\ UNCHANGED <<remote_fields, details, earlier, client, outside>>

\* `for item_id in work_items_dict: if item_id not in child_items`
CollectRoots ==
    /\ pc = "roots"
    /\ root_items' = CollectRootItems(dict_keys, child_items)
    /\ pc' = "sort"
    /\ UNCHANGED <<rows, remote, idx, relations, dict_keys, work_items_dict,
                   child_items, returned, raised, hierarchy>>
    /\ UNCHANGED <<remote_fields, details, earlier, client, outside>>

\* root_items.sort(key=sort_by_type) and every item.items.sort(key=sort_by_type)
SortItems ==
    /\ pc = "sort"
    /\ root_items' = ListSort(root_items, work_items_dict)
    /\ work_items_dict' = SortAllItems(work_items_dict)
    /\ pc' = "serialize"
    /\ UNCHANGED <<rows, remote, idx, relations, dict_keys, child_items,
                   returned, raised, hierarchy>>
    /\ UNCHANGED <<remote_fields, details, earlier, client, outside>>

\* hierarchy_dict = [item.to_dict() ...]; return json.dumps(hierarchy_dict);
\* a RecursionError inside to_dict is caught and the call returns None.
Serialize ==
    /\ pc = "serialize"
    /\ IF \E k \in 1..Len(root_items) :
             RecursionError(work_items_dict, root_items[k], Len(dict_keys))
       THEN /\ returned' = "None"
            /\ raised' = "RecursionError"
            /\ hierarchy' = hierarchy
       ELSE /\ returned' = "json"
            /\ raised' = raised
            /\ hierarchy' = HierarchyDict(work_items_dict, root_items)
    /\ pc' = "done"
    /\ client' = SelfAfterCall(client, hierarchy')
    /\ UNCHANGED <<rows, remote, idx, relations, dict_keys, work_items_dict,
                   child_items, root_items>>
    /\ UNCHANGED <<remote_fields, details, earlier, outside>>

\* The caller calls get_work_items_hierarchy once more on the same object,
\* the service holding what it held: the locals start anew.
CallAgain ==
    /\ pc = "done"
    /\ earlier = <<>>
    /\ earlier' = Append(earlier, [returned |-> returned, raised |-> raised,
                                    hierarchy |-> hierarchy])
    /\ pc' = "start"
    /\ idx' = 1
    /\ relations' = <<>>
    /\ dict_keys' = <<>>
    /\ work_items_dict' = NewWorkItemsDict(work_items_dict)
    /\ details' = <<>>
    /\ child_items' = {}
    /\ root_items' = <<>>
    /\ returned' = "pending"
    /\ raised' = ""
    /\ hierarchy' = <<>>
    /\ UNCHANGED <<rows, remote, remote_fields, client, outside>>

Next ==
    \/ QueryLinks
    \/ ExtractRelation
    \/ IdentifyChildren
    \/ CollectRoots
    \/ SortItems
    \/ Serialize

Spec == Init /\ [][Next]_vars

SpecSort == InitSort /\ [][Next]_vars

\* A client whose project was created or selected.
ClientOfProject(project_name) ==
    [project_name |-> project_name,
     team_name |-> project_name \o <<" ", "T", "e", "a", "m">>,
     repo_name |-> project_name,
     name |-> project_name,
     items |-> None]

\* The specification of repeated calls: as Init, on the client of a project,
\* the service having every item or every item but one.
InitTwice ==
    /\ rows \in SeqsUpTo(LinkRows, MaxRows)
    /\ remote \in {[i \in ItemIds |-> IF i = k THEN NotFound ELSE TypeOfId(i)] :
                     k \in ItemIds \cup {NoSource}}
    /\ remote_fields = AllFields(ItemIds)
    /\ client = ClientOfProject(<<"p">>)
    /\ Fresh
    /\ OutsideIdle

NextTwice ==
    \/ Next
    \/ CallAgain

SpecTwice == InitTwice /\ [][NextTwice]_vars

\* The specification of the item fields: items 1 and 2, 1 the parent of 2,
\* each with or without a type and with any of the other keys of fields.
InitFields ==
    /\ rows = <<[source |-> 1, target |-> 2]>>
    /\ remote \in [{1, 2} -> {Absent, "Epic", "Task"}]
    /\ remote_fields \in [{1, 2} -> SUBSET FieldKeys]
    /\ client = ConstructedClient
    /\ Fresh
    /\ OutsideIdle

SpecFields == InitFields /\ [][Next]_vars

\* ------------------------------------------------------------- the phase
\* str.split(sep) for a separator of one character: the segments between
\* the separators, one more than there are separators.
RECURSIVE Split(_, _)
Split(s, sep) ==
    IF \A i \in 1..Len(s) : s[i] # sep
    THEN <<s>>
    ELSE LET k == CHOOSE i \in 1..Len(s) :
                     s[i] = sep /\ \A j \in 1..(i - 1) : s[j] # sep
         IN  <<SubSeq(s, 1, k - 1)>> \o Split(SubSeq(s, k + 1, Len(s)), sep)

\* The phase names tried: every str of up to MaxPhaseLen characters, each a
\* letter or a backslash, and the default phase.
MaxPhaseLen == 2
PhaseChars == {"a", "\\"}
default_phase == <<"i", "n", "c", "e", "p", "t", "i", "o", "n">>
Phases == SeqsUpTo(PhaseChars, MaxPhaseLen) \cup {default_phase}

\* f"{self.project_name}\\{phase}" without its backslash.
AreaPathJoined(project_name, phase) == project_name \o phase

\* f"{self.project_name}\\{phase}"
AreaPathOf(project_name, phase) == project_name \o <<"\\">> \o phase

\* parts[-1] in the place of parts[1].
PhaseOfAreaPathLast(area_path) ==
    LET parts == Split(area_path, "\\")
    IN  IF area_path = <<>> THEN None
        ELSE IF Len(parts) > 1 THEN parts[Len(parts)] ELSE None

\* What get_current_phase returns for the area path of the Epic found:
\* parts[1] of the split, None when there is no area path or no backslash.
PhaseOfAreaPath(area_path) ==
    LET parts == Split(area_path, "\\")
    IN  IF area_path = <<>> THEN None
        ELSE IF Len(parts) > 1 THEN parts[2] ELSE None

\* get_current_phase on the Epics the query returns; ok is FALSE when a
\* request to the service raises.  The Epics afterwards and the return value.
get_current_phase(project_name, query_results, ok) ==
    IF ~ok
    THEN [epics |-> query_results, result |-> None, raised |-> TRUE]
    ELSE IF query_results = <<>>
    THEN [epics |-> <<AreaPathOf(project_name, default_phase)>>,
          result |-> default_phase, raised |-> FALSE]
    ELSE [epics |-> query_results,
          result |-> PhaseOfAreaPath(query_results[1]), raised |-> FALSE]

\* set_current_phase(phase) likewise: the Epic is created with the area path
\* of the phase, or the first Epic of the query gets it.
set_current_phase(project_name, query_results, phase, ok) ==
    IF ~ok
    THEN [epics |-> query_results, result |-> None, raised |-> TRUE]
    ELSE IF query_results = <<>>
    THEN [epics |-> <<AreaPathOf(project_name, phase)>>,
          result |-> phase, raised |-> FALSE]
    ELSE [epics |-> [query_results EXCEPT
                        ![1] = AreaPathOf(project_name, phase)],
          result |-> phase, raised |-> FALSE]

\* The area paths a Documentation Epic of the project can have on the
\* service: none, the project alone, or the project and a phase.
AreaPaths(project_name) ==
    {<<>>, project_name} \cup {AreaPathOf(project_name, ph) : ph \in Phases}

\* The Documentation Epics the service can hold: none, one, or one and a
\* second that a user made by hand.
EpicStates(project_name) ==
    {<<>>} \cup {<<a>> : a \in AreaPaths(project_name)}
           \cup {<<a, project_name>> :
                    a \in {project_name, AreaPathOf(project_name, <<"a">>)}}

GetCurrentPhase ==
    \E ok \in BOOLEAN :
        LET out == get_current_phase(client.project_name, epics, ok)
        IN  /\ epics' = out.epics
            /\ phase_prev' = phase_last
            /\ phase_last' = [op |-> "get", arg |-> <<>>,
                              result |-> out.result, raised |-> out.raised,
                              before |-> epics]
            /\ UNCHANGED <<build, teams_vars, delete_vars, client, project_vars, agent_vars,
                           folder_vars>>

SetCurrentPhase ==
    \E phase \in Phases, ok \in BOOLEAN :
        LET out == set_current_phase(client.project_name, epics, phase, ok)
        IN  /\ epics' = out.epics
            /\ phase_prev' = phase_last
            /\ phase_last' = [op |-> "set", arg |-> phase,
                              result |-> out.result, raised |-> out.raised,
                              before |-> epics]
            /\ UNCHANGED <<build, teams_vars, delete_vars, client, project_vars, agent_vars,
                           folder_vars>>

\* Somebody else writes to the Documentation Epics of the project.
OtherWrite ==
    \E e \in EpicStates(client.project_name) \ {epics} :
        /\ epics' = e
        /\ phase_prev' = phase_last
        /\ phase_last' = [op |-> "other", arg |-> <<>>, result |-> None,
                          raised |-> FALSE, before |-> epics]
        /\ UNCHANGED <<build, teams_vars, delete_vars, client, project_vars, agent_vars, folder_vars>>

InitPhase ==
    /\ client = ClientOfProject(<<"p">>)
    /\ epics \in EpicStates(client.project_name)
    /\ phase_prev = NoPhaseCall
    /\ phase_last = NoPhaseCall
    /\ BuildIdle
    /\ ProjectIdle
    /\ AgentIdle
    /\ FolderIdle
    /\ TeamsIdle
    /\ DeleteIdle

NextPhase ==
    \/ GetCurrentPhase
    \/ SetCurrentPhase
    \/ OtherWrite

SpecPhase == InitPhase /\ [][NextPhase]_vars

\* ---------------------------------------------------------- create_project
\* The length a project name cannot exceed.
NameLimit == 64

\* The names tried: a head of up to MaxHead characters, then no padding or
\* letters enough to come near NameLimit or beyond it.
MaxHead == 2
NameChars == {"a", "é", "1", "½", "-", "_", "!"}
Pad(n) == [i \in 1..n |-> "a"]
PadLengths == {0} \cup ((NameLimit - MaxHead)..NameLimit)
ProjectNames ==
    {head \o Pad(n) : head \in SeqsUpTo(NameChars, MaxHead), n \in PadLengths}

\* str.isalpha and str.isalnum on a character: 'é' is a letter, and '½',
\* a numeric character that is no digit, is alphanumeric.
isalpha(c) == c \in {"a", "é"}
isalnum(c) == c \in {"a", "é", "1", "½"}

\* len(name) >= 64 in the place of len(name) > 64.
TooLongAtLimit(name) == Len(name) >= NameLimit

\* len(name) > 64
TooLong(name) == Len(name) > NameLimit

\* validate_project_name(name): the message of the ValidationError it
\* raises, "" when it returns.
validate_project_name(name) ==
    IF name = <<>> THEN "Project name cannot be empty"
    ELSE IF TooLong(name) THEN "Project name cannot exceed 64 characters"
    ELSE IF ~isalpha(name[1]) THEN "Project name must start with a letter"
    ELSE IF ~(\A i \in 1..Len(name) : isalnum(name[i]) \/ name[i] \in {"-", "_"})
    THEN "Project name can only contain letters, numbers, hyphens, and underscores"
    ELSE ""

\* How the requests of create_project to the service can end: all succeed,
\* the request for the process template raises, queue_create_project raises,
\* or the project is queued and a later request raises.
Outcomes == {"ok", "template_error", "queue_error", "later_error"}

\* A variant of create_project: the three names are assigned before the
\* name is validated.
create_project_names_first(self, project_name, outcome) ==
    LET named == [self EXCEPT
                     !.project_name = project_name,
                     !.team_name = project_name \o <<" ", "T", "e", "a", "m">>,
                     !.repo_name = project_name]
    IN  IF validate_project_name(project_name) # "" \/ outcome = "template_error"
        THEN [self |-> named, queued |-> {}, result |-> "",
              raised |-> "ProjectError"]
        ELSE IF outcome = "queue_error"
        THEN [self |-> named, queued |-> {}, result |-> "None", raised |-> ""]
        ELSE IF outcome = "later_error"
        THEN [self |-> named, queued |-> {project_name}, result |-> "None",
              raised |-> ""]
        ELSE [self |-> [named EXCEPT !.name = project_name],
              queued |-> {project_name}, result |-> "operation_reference",
              raised |-> ""]

\* create_project(project_name) on the client self: the client afterwards,
\* the names queued for creation, what is returned and what is raised.
create_project(self, project_name, outcome) ==
    LET named == [self EXCEPT
                     !.project_name = project_name,
                     !.team_name = project_name \o <<" ", "T", "e", "a", "m">>,
                     !.repo_name = project_name]
    IN  IF validate_project_name(project_name) # ""
        THEN [self |-> self, queued |-> {}, result |-> "",
              raised |-> "ProjectError"]
        ELSE IF outcome = "template_error"
        THEN [self |-> self, queued |-> {}, result |-> "",
              raised |-> "ProjectError"]
        ELSE IF outcome = "queue_error"
        THEN [self |-> named, queued |-> {}, result |-> "None", raised |-> ""]
        ELSE IF outcome = "later_error"
        THEN [self |-> named, queued |-> {project_name}, result |-> "None",
              raised |-> ""]
        ELSE [self |-> [named EXCEPT !.name = project_name],
              queued |-> {project_name}, result |-> "operation_reference",
              raised |-> ""]

CreateProject ==
    /\ cp_out.op = "none"
    /\ \E project_name \in ProjectNames, outcome \in Outcomes :
        LET out == create_project(client, project_name, outcome)
        IN  /\ client' = out.self
            /\ projects' = projects \cup out.queued
            /\ cp_out' = [op |-> "create_project", arg |-> project_name,
                          outcome |-> outcome, result |-> out.result,
                          raised |-> out.raised, before |-> client,
                          queued |-> out.queued]
    /\ UNCHANGED <<build, teams_vars, delete_vars, phase_vars, agent_vars, folder_vars>>

\* validate_project_name called by itself.
ValidateProjectName ==
    /\ cp_out.op = "none"
    /\ \E name \in ProjectNames :
        cp_out' = [op |-> "validate_project_name", arg |-> name,
                   outcome |-> validate_project_name(name), result |-> "",
                   raised |-> IF validate_project_name(name) = ""
                              THEN "" ELSE "ValidationError",
                   before |-> client, queued |-> {}]
    /\ UNCHANGED <<build, teams_vars, delete_vars, client, projects, phase_vars, agent_vars, folder_vars>>

\* The client as constructed, or the client of a project made earlier.
InitProject ==
    /\ \/ client = ConstructedClient /\ projects = {}
       \/ client = ClientOfProject(<<"p">>) /\ projects = {<<"p">>}
    /\ cp_out = NoProjectCall
    /\ BuildIdle
    /\ PhaseIdle
    /\ AgentIdle
    /\ FolderIdle
    /\ TeamsIdle
    /\ DeleteIdle

NextProject ==
    \/ CreateProject
    \/ ValidateProjectName

SpecProject == InitProject /\ [][NextProject]_vars

\* ------------------------------------------- the agent utility functions
\* context_variables as agent_test.py makes it: there is a key
\* "project name" and no key "project_name".
InitialContext ==
    [key \in {"phase", "iteration", "project name"} |->
        IF key = "phase"
        THEN <<"I", "n", "c", "e", "p", "t", "i", "o", "n", " ",
               "P", "h", "a", "s", "e">>
        ELSE <<>>]

\* The values the setters are called with.
AgentValues == {<<>>, <<"x">>, <<"S", "1">>}

\* context_variables[key] = value
SetItem(dict, key, value) ==
    [k \in DOMAIN dict \cup {key} |-> IF k = key THEN value ELSE dict[k]]

\* return context_variables[key]: the value, or KeyError raised.
GetItem(name, dict, key) ==
    IF key \in DOMAIN dict
    THEN [op |-> name, arg |-> <<>>, result |-> dict[key], raised |-> ""]
    ELSE [op |-> name, arg |-> <<>>, result |-> None, raised |-> "KeyError"]

\* The key get_iteration reads.
IterationKeyRead == "iteration"

\* The key set_iteration writes.
IterationKeyWritten == "iteration_name"

\* str.lower, on the characters the phases are made of.
LowerChar(c) ==
    CASE c = "A" -> "a"
      [] c = "I" -> "i"
      [] c = "P" -> "p"
      [] c = "D" -> "d"
      [] OTHER -> c
Lower(s) == [i \in 1..Len(s) |-> LowerChar(s[i])]

\* sub in s, for two str.
IsSubstring(sub, s) ==
    \E i \in 0..(Len(s) - Len(sub)) : SubSeq(s, i + 1, i + Len(sub)) = sub

\* A variant of agents: the dict has no key "development".
agents_without_development ==
    << <<"i", "n", "c", "e", "p", "t", "i", "o", "n">>,
       <<"p", "l", "a", "n", "n", "i", "n", "g">> >>

\* The keys of the dict agents of transfer_to_product_owner, in its order.
agents ==
    << <<"i", "n", "c", "e", "p", "t", "i", "o", "n">>,
       <<"p", "l", "a", "n", "n", "i", "n", "g">>,
       <<"d", "e", "v", "e", "l", "o", "p", "m", "e", "n", "t">> >>

\* transfer_to_product_owner(): the Epics afterwards, the key of the agent
\* returned (None for the fallback product_owner_inception), the phase it
\* wrote (None when it wrote none) and what it raised.  get_current_phase
\* returning None makes .lower() raise AttributeError.
transfer_to_product_owner(project_name, query_results, ok_get, ok_set) ==
    LET got == get_current_phase(project_name, query_results, ok_get)
        phase == Lower(got.result)
        hits == {i \in 1..Len(agents) : IsSubstring(phase, agents[i])}
        first == CHOOSE i \in hits : \A j \in hits : i <= j
    IN  IF got.result = None
        THEN [epics |-> got.epics, key |-> None, wrote |-> None,
              raised |-> "AttributeError"]
        ELSE IF hits = {}
        THEN [epics |-> got.epics, key |-> None, wrote |-> None, raised |-> ""]
        ELSE [epics |-> set_current_phase(project_name, got.epics,
                                          agents[first], ok_set).epics,
              key |-> agents[first], wrote |-> agents[first], raised |-> ""]

\* The getters: context_variables stays, the call is recorded.
GetProjectName ==
    /\ agent_prev' = agent_last
    /\ agent_last' = GetItem("get_project_name", context_variables, "project_name")
    /\ UNCHANGED <<context_variables, epics, phase_prev, phase_last, build, transfer_last, teams_vars,
                   delete_vars,
                   client, project_vars, folder_vars>>

GetIteration ==
    /\ agent_prev' = agent_last
    /\ agent_last' = GetItem("get_iteration", context_variables, IterationKeyRead)
    /\ UNCHANGED <<context_variables, epics, phase_prev, phase_last, build, transfer_last, teams_vars,
                   delete_vars,
                   client, project_vars, folder_vars>>

GetPhase ==
    /\ agent_prev' = agent_last
    /\ agent_last' = GetItem("get_phase", context_variables, "phase")
    /\ UNCHANGED <<context_variables, epics, phase_prev, phase_last, build, transfer_last, teams_vars,
                   delete_vars,
                   client, project_vars, folder_vars>>

SetProjectName ==
    \E project_name \in AgentValues :
        /\ context_variables' =
               SetItem(context_variables, "project_name", project_name)
        /\ agent_prev' = agent_last
        /\ agent_last' = [op |-> "set_project_name", arg |-> project_name,
                          result |-> None, raised |-> ""]
        /\ UNCHANGED <<epics, phase_prev, phase_last, build, transfer_last, teams_vars,
                       delete_vars, client,
                       project_vars, folder_vars>>

SetIteration ==
    \E iteration_name \in AgentValues :
        /\ context_variables' =
               SetItem(context_variables, IterationKeyWritten, iteration_name)
        /\ agent_prev' = agent_last
        /\ agent_last' = [op |-> "set_iteration", arg |-> iteration_name,
                          result |-> None, raised |-> ""]
        /\ UNCHANGED <<epics, phase_prev, phase_last, build, transfer_last, teams_vars,
                       delete_vars, client,
                       project_vars, folder_vars>>

\* set_phase(phase) writes the key and calls transfer_to_product_owner, whose
\* return value it drops.
SetPhase ==
    \E phase \in AgentValues, ok_get \in BOOLEAN, ok_set \in BOOLEAN :
        LET out == transfer_to_product_owner(client.project_name, epics,
                                             ok_get, ok_set)
        IN  /\ context_variables' = SetItem(context_variables, "phase", phase)
            /\ epics' = out.epics
            /\ agent_prev' = agent_last
            /\ agent_last' = [op |-> "set_phase", arg |-> phase,
                              result |-> None, raised |-> out.raised]
            /\ UNCHANGED <<phase_prev, phase_last, build, transfer_last, teams_vars,
                           delete_vars, client,
                           project_vars, folder_vars>>

\* transfer_to_product_owner() called by an agent: the call and the Epics
\* before and after it are recorded.
TransferToProductOwner ==
    /\ transfer_last.op = "none"
    /\ \E ok_get \in BOOLEAN, ok_set \in BOOLEAN :
        LET out == transfer_to_product_owner(client.project_name, epics,
                                             ok_get, ok_set)
        IN  /\ epics' = out.epics
            /\ transfer_last' = [op |-> "transfer_to_product_owner",
                                 before |-> epics, after |-> out.epics,
                                 key |-> out.key, wrote |-> out.wrote,
                                 raised |-> out.raised]
    /\ UNCHANGED <<context_variables, agent_prev, agent_last, phase_prev,
                   phase_last, build, teams_vars, delete_vars, client,
                   project_vars, folder_vars>>

\* Phases that set_current_phase, a tool of the agents, can have stored.
planning == <<"p", "l", "a", "n", "n", "i", "n", "g">>
development == <<"d", "e", "v", "e", "l", "o", "p", "m", "e", "n", "t">>
release == <<"r", "e", "l", "e", "a", "s", "e">>
Planning == <<"P", "l", "a", "n", "n", "i", "n", "g">>
StoredPhases == {default_phase, planning, development, release, Planning, <<"a">>}

\* The Documentation Epics the agents start from: none, or one whose area
\* path is the project alone or the project and a stored phase.
AgentEpicStates(project_name) ==
    {<<>>, <<project_name>>} \cup
    {<<AreaPathOf(project_name, ph)>> : ph \in StoredPhases}

InitAgent ==
    /\ context_variables = InitialContext
    /\ agent_prev = NoAgentCall
    /\ agent_last = NoAgentCall
    /\ client = ClientOfProject(<<"p">>)
    /\ epics \in AgentEpicStates(client.project_name)
    /\ phase_prev = NoPhaseCall
    /\ phase_last = NoPhaseCall
    /\ BuildIdle
    /\ ProjectIdle
    /\ FolderIdle
    /\ transfer_last = NoTransfer
    /\ TeamsIdle
    /\ DeleteIdle

NextAgent ==
    \/ GetProjectName
    \/ GetIteration
    \/ GetPhase
    \/ SetProjectName
    \/ SetIteration
    \/ SetPhase
    \/ TransferToProductOwner

SpecAgent == InitAgent /\ [][NextAgent]_vars

\* -------------------------------------------------------------- add_folder
\* str.strip('/'): the str without the slashes it starts and ends with.
RECURSIVE Strip(_, _)
Strip(s, c) ==
    IF s = <<>> THEN s
    ELSE IF s[1] = c THEN Strip(Tail(s), c)
    ELSE IF s[Len(s)] = c THEN Strip(SubSeq(s, 1, Len(s) - 1), c)
    ELSE s

\* str.capitalize on folder names of the letters a and b.
UpperChar(c) ==
    CASE c = "a" -> "A"
      [] c = "b" -> "B"
      [] OTHER -> c
capitalize(s) ==
    [i \in 1..Len(s) |-> IF i = 1 THEN UpperChar(s[i]) ELSE LowerChar(s[i])]

\* The README text of a last folder given no description, and of a folder
\* above the last.
DefaultText(part) ==
    <<"# ">> \o capitalize(part) \o <<"\n\nThis folder contains ">> \o part
             \o <<" related files.">>
ContainerText(part) ==
    <<"# ">> \o capitalize(part) \o <<"\n\nThis is a container folder for ">>
             \o part \o <<" related components.">>

\* not description
Falsy(description) == description = None \/ description = <<>>

\* '/'.join(parts)
RECURSIVE Join(_)
Join(parts) ==
    IF Len(parts) = 1 THEN parts[1]
    ELSE parts[1] \o <<"/">> \o Join(Tail(parts))

\* The folder paths tried: up to MaxDepth folders named a or b, written with
\* or without slashes around them, and the empty path.
MaxDepth == 3
FolderNames == {<<"a">>, <<"b">>}
FolderPaths ==
    LET plain == {Join(parts) :
                     parts \in SeqsUpTo(FolderNames, MaxDepth) \ {<<>>}}
    IN  plain \cup {<<"/">> \o q \o <<"/">> : q \in plain} \cup {<<>>}

\* The descriptions tried: none given, the empty one, and a text.
Descriptions == {None, <<>>, <<"D">>}

\* get_item of a path that never has a README.md.
ReadmeNeverFound(files, path) == FALSE

\* get_item(path=f"/{current_path}/README.md") returns: the file is there.
ReadmeExists(files, path) == path \in DOMAIN files

RECURSIVE AddFolderLoop(_, _, _, _, _, _)
\* The loop over path_parts from part i on: the changes it collects, each
\* the path of a folder whose README.md is missing and the content to add.
AddFolderLoop(files, path_parts, i, current_path, description, changes) ==
    IF i > Len(path_parts) THEN changes
    ELSE
        LET part == path_parts[i]
            path == IF current_path # <<>>
                    THEN current_path \o <<"/">> \o part ELSE part
            text == IF i = Len(path_parts)
                    THEN IF Falsy(description) THEN DefaultText(part)
                         ELSE description
                    ELSE ContainerText(part)
        IN  IF ReadmeExists(files, path)
            THEN AddFolderLoop(files, path_parts, i + 1, path, description,
                               changes)
            ELSE AddFolderLoop(files, path_parts, i + 1, path, text,
                               Append(changes,
                                      [path |-> path, content |-> text]))

\* The changes add_folder pushes for folder_path and description.
ChangesOf(files, folder_path, description) ==
    AddFolderLoop(files, Split(Strip(folder_path, "/"), "/"), 1, <<>>,
                  description, <<>>)

\* The repository after the push: every change adds its README.md.
AfterPush(files, changes) ==
    [q \in DOMAIN files \cup {changes[k].path : k \in 1..Len(changes)} |->
        IF q \in DOMAIN files THEN files[q]
        ELSE LET k == CHOOSE j \in 1..Len(changes) : changes[j].path = q
             IN  changes[k].content]

\* How a call of add_folder on the one repository of the project can end:
\* the requests succeed, the branch main is not there, or a request raises.
FolderOutcomes == {"ok", "no_branch", "error"}

\* add_folder(folder_path, description), at most twice.
AddFolder ==
    /\ folder_prev.op = "none"
    /\ \E folder_path \in FolderPaths, description \in Descriptions,
          outcome \in FolderOutcomes :
        LET changes == IF outcome = "ok"
                       THEN ChangesOf(repo_files, folder_path, description)
                       ELSE <<>>
        IN  /\ repo_files' = AfterPush(repo_files, changes)
            /\ folder_prev' = folder_last
            /\ folder_last' = [op |-> "add_folder",
                               folder_path |-> folder_path,
                               description |-> description,
                               outcome |-> outcome,
                               result |-> (outcome = "ok"),
                               pushed |-> changes,
                               before |-> repo_files]
    /\ client' = [client EXCEPT !.repo_name = client.project_name]
    /\ UNCHANGED <<build, teams_vars, delete_vars, phase_vars, project_vars, agent_vars>>

InitFolder ==
    /\ client = ClientOfProject(<<"p">>)
    /\ repo_files = <<>>
    /\ folder_prev = NoFolderCall
    /\ folder_last = NoFolderCall
    /\ BuildIdle
    /\ PhaseIdle
    /\ ProjectIdle
    /\ AgentIdle
    /\ TeamsIdle
    /\ DeleteIdle

NextFolder == AddFolder

SpecFolder == InitFolder /\ [][NextFolder]_vars

\* --------------------------------------------------------- list_user_teams
\* The teams get_all_teams can return: up to MaxTeams of these, each once;
\* two of them, of different projects, have the same name.
MaxTeams == 2
TeamPool ==
    {[id |-> "t1", name |-> "A"], [id |-> "t2", name |-> "A"],
     [id |-> "t3", name |-> "B"]}
TeamLists ==
    {l \in SeqsUpTo(TeamPool, MaxTeams) :
        \A j, k \in 1..Len(l) : j # k => l[j].id # l[k].id}

\* What find_user has for the e-mail: the user with a descriptor, nothing,
\* or a user without a descriptor.
UserStates == {"found", "not_found", "no_descriptor"}

\* user_teams: list_memberships(user_descriptor) is asked once per team and
\* returns the memberships of the user each time, so every team is appended
\* when the user has any membership and none otherwise.
UserTeams(teams, memberships) ==
    IF memberships # {} THEN teams ELSE <<>>

RECURSIVE DistinctTeams(_, _)
\* distinct_teams: the teams of a list whose name is not in seen_ids, the
\* first of each name.
DistinctTeams(teams, seen_ids) ==
    IF teams = <<>> THEN <<>>
    ELSE IF Head(teams).name \in seen_ids
    THEN DistinctTeams(Tail(teams), seen_ids)
    ELSE <<Head(teams)>>
             \o DistinctTeams(Tail(teams), seen_ids \cup {Head(teams).name})

\* list_user_teams(user_email): what it returns and what it raises.  It
\* builds user_teams and returns distinct_teams, made from all_teams.  A
\* RequestException is caught, another exception of a request is not.
list_user_teams(found, teams, memberships, outcome) ==
    IF outcome = "RequestException"
    THEN [returned |-> "None", result |-> <<>>, raised |-> ""]
    ELSE IF found # "found"
    THEN [returned |-> "None", result |-> <<>>, raised |-> ""]
    ELSE IF outcome = "other_error"
    THEN [returned |-> "", result |-> <<>>, raised |-> "Exception"]
    ELSE LET user_teams == UserTeams(teams, memberships)
         IN  [returned |-> "list", result |-> DistinctTeams(teams, {}),
              raised |-> ""]

ListUserTeams ==
    /\ teams_last.op = "none"
    /\ \E outcome \in {"ok", "RequestException", "other_error"} :
        LET out == list_user_teams(user, all_teams, member_of, outcome)
        IN  teams_last' = [op |-> "list_user_teams",
                           returned |-> out.returned, result |-> out.result,
                           raised |-> out.raised]
    /\ UNCHANGED <<all_teams, member_of, user, build, client, phase_vars,
                   project_vars, agent_vars, folder_vars, delete_vars>>

InitTeams ==
    /\ all_teams \in TeamLists
    /\ member_of \in SUBSET {t.id : t \in TeamPool}
    /\ user \in UserStates
    /\ teams_last = NoTeamsCall
    /\ client = ClientOfProject(<<"p">>)
    /\ BuildIdle
    /\ PhaseIdle
    /\ ProjectIdle
    /\ AgentIdle
    /\ FolderIdle
    /\ DeleteIdle

NextTeams == ListUserTeams

SpecTeams == InitTeams /\ [][NextTeams]_vars

\* -------------------------------------------------- force_delete_directory
\* max_attempts
max_attempts == 3

\* The three copies of the function: the two methods swallow what os.chmod
\* raises, the script of delete_repo.py does not.
Versions == {"AzureDevOpsProject", "GitHubClient", "delete_repo"}
SwallowsChmodErrors(version) == version \in {"AzureDevOpsProject", "GitHubClient"}

\* The directory at the path: absent, or there with a subdirectory d, a
\* file f, both or neither, each read-only or not.
Directories ==
    {[exists |-> FALSE, read_only |-> <<>>]} \cup
    {[exists |-> TRUE, read_only |-> flags] :
        flags \in UNION {[names -> BOOLEAN] : names \in SUBSET {"d", "f"}}}

\* attempt <= max_attempts in the place of attempt < max_attempts.
KeepTryingInclusive(n) == n <= max_attempts

\* while attempt < max_attempts
KeepTrying(n) == n < max_attempts

\* The entries os.chmod has cleared when it raises on those of failing: all
\* the others where that is swallowed, and in the script the ones walked
\* before the first that raises (d before f).
Cleared(version, names, failing) ==
    IF SwallowsChmodErrors(version) THEN names \ failing
    ELSE IF "d" \in failing THEN {}
    ELSE IF "f" \in failing THEN names \cap {"d"}
    ELSE names

\* One iteration of the loop: os.chmod raises on the entries of failing,
\* then shutil.rmtree removes the directory, or raises having removed the
\* entries of removed.  A directory that is absent cannot be removed.
AttemptDelete ==
    /\ fd_pc = "loop"
    /\ KeepTrying(attempt)
    /\ \E failing \in SUBSET DOMAIN dir.read_only,
          removed \in SUBSET DOMAIN dir.read_only,
          rmtree_ok \in BOOLEAN :
        LET names == DOMAIN dir.read_only
            cleared == Cleared(fd_version, names, failing)
            chmod_raised == ~SwallowsChmodErrors(fd_version) /\ failing # {}
            flags == [n \in names |->
                         IF n \in cleared THEN FALSE ELSE dir.read_only[n]]
            success == ~chmod_raised /\ rmtree_ok /\ dir.exists
            left == IF chmod_raised THEN names ELSE names \ removed
        IN  /\ dir' = IF success
                      THEN [exists |-> FALSE, read_only |-> <<>>]
                      ELSE [exists |-> dir.exists,
                            read_only |-> [n \in left |-> flags[n]]]
            /\ attempt' = IF success THEN attempt ELSE attempt + 1
            /\ fd_pc' = IF success THEN "returned" ELSE "loop"
            /\ fd_result' = IF success THEN "True" ELSE fd_result
            /\ fd_log' = [iterations |-> fd_log.iterations + 1,
                          removals_failed |->
                              fd_log.removals_failed +
                                  (IF ~success /\ ~chmod_raised THEN 1 ELSE 0),
                          chmods_failed |->
                              fd_log.chmods_failed +
                                  (IF failing # {} THEN 1 ELSE 0)]
    /\ UNCHANGED <<fd_version, build, client, phase_vars, project_vars,
                   agent_vars, folder_vars, teams_vars>>

\* The loop ends with attempt at max_attempts: return False.
ReturnFalse ==
    /\ fd_pc = "loop"
    /\ ~KeepTrying(attempt)
    /\ fd_pc' = "returned"
    /\ fd_result' = "False"
    /\ UNCHANGED <<fd_version, dir, attempt, fd_log, build, client,
                   phase_vars, project_vars, agent_vars, folder_vars,
                   teams_vars>>

\* force_delete_directory(path) was called.
InitDelete ==
    /\ fd_version \in Versions
    /\ dir \in Directories
    /\ attempt = 0
    /\ fd_pc = "loop"
    /\ fd_result = "pending"
    /\ fd_log = [iterations |-> 0, removals_failed |-> 0, chmods_failed |-> 0]
    /\ client = ConstructedClient
    /\ BuildIdle
    /\ PhaseIdle
    /\ ProjectIdle
    /\ AgentIdle
    /\ FolderIdle
    /\ TeamsIdle

NextDelete ==
    \/ AttemptDelete
    \/ ReturnFalse

\* The function runs in one thread and every call in the loop returns
\* (time.sleep(1) included), so a step that can be taken is taken.
SpecDelete == InitDelete /\ [][NextDelete]_vars /\ WF_vars(NextDelete)

\* ------------------------------------------- reading the returned forest
\* The call has returned hierarchy_json.
ReturnedForest == pc = "done" /\ returned = "json"

RECURSIVE NodesOf(_)
\* Every node of a forest, at any depth.
NodesOf(forest) ==
    UNION {{forest[k]} \cup NodesOf(forest[k].items) : k \in 1..Len(forest)}

RECURSIVE CountInForest(_, _)
\* How many nodes of the forest, at any depth, carry the id.
CountInForest(forest, id) ==
    IF forest = <<>> THEN 0
    ELSE (IF Head(forest).id = id THEN 1 ELSE 0)
         + CountInForest(Head(forest).items, id)
         + CountInForest(Tail(forest), id)

IdsOfList(list) == [k \in 1..Len(list) |-> list[k].id]
TypesOfList(list) == [k \in 1..Len(list) |-> list[k].work_item_type]

\* The top-level list and every node's child list.
OutputLists == {hierarchy} \cup {n.items : n \in NodesOf(hierarchy)}

\* The relation tuples as the input states them.
TupleIndexes == 1..Len(relations)
SourceOf(k) == relations[k][1]
TargetOf(k) == relations[k][2]
SourceIds == {SourceOf(k) : k \in TupleIndexes}
TargetIds == {TargetOf(k) : k \in TupleIndexes}
RelationIds == SourceIds \cup TargetIds

\* M: the ids of the relation tuples whose metadata the service delivers.
HasMetadata(id) == id \in DOMAIN remote /\ remote[id] # NotFound
MetadataIds == {id \in RelationIds : HasMetadata(id)}

\* The tuples whose two ids both have metadata.
LinkedTuples == {k \in TupleIndexes : HasMetadata(SourceOf(k)) /\ HasMetadata(TargetOf(k))}

\* The ids reachable from id over linked tuples in one or more steps.
RECURSIVE ReachFrom(_, _)
ReachFrom(frontier, seen) ==
    LET next == {TargetOf(k) : k \in {j \in LinkedTuples : SourceOf(j) \in frontier}} \ seen
    IN IF next = {} THEN seen ELSE ReachFrom(next, seen \cup next)
Descendants(id) == ReachFrom({id}, {})
OnCycle(id) == id \in Descendants(id)

\* The children of parent in the order the relation tuples introduce them.
RECURSIVE ArrivalChildrenFrom(_, _)
ArrivalChildrenFrom(parent, k) ==
    IF k > Len(relations) THEN <<>>
    ELSE (IF k \in LinkedTuples /\ SourceOf(k) = parent THEN <<TargetOf(k)>> ELSE <<>>)
         \o ArrivalChildrenFrom(parent, k + 1)
ArrivalChildren(parent) == ArrivalChildrenFrom(parent, 1)

\* The number of tuples (parent, child).
TupleCount(parent, child) ==
    Cardinality({k \in TupleIndexes : SourceOf(k) = parent /\ TargetOf(k) = child})

\* The ids in the order the relation tuples first mention them.
RECURSIVE FirstMentionsFrom(_, _)
FirstMentionsFrom(k, seen) ==
    IF k > Len(relations) THEN <<>>
    ELSE LET s == SourceOf(k)
             t == TargetOf(k)
             new == (IF s \in seen THEN <<>> ELSE <<s>>)
                    \o (IF t \in seen \cup {s} THEN <<>> ELSE <<t>>)
         IN new \o FirstMentionsFrom(k + 1, seen \cup {s, t})
FirstMentions == FirstMentionsFrom(1, {})

\* ------------------------------------------------------------ the claims
\* The relation tuples are well formed: every id has metadata, no tuple
\* occurs twice and no id is its own descendant.
WellFormed ==
    /\ LinkedTuples = TupleIndexes
    /\ \A j, k \in TupleIndexes : relations[j] = relations[k] => j = k
    /\ \A id \in RelationIds : ~OnCycle(id)

\* C1 (as claimed, on well-formed relation tuples): every id that is the
\* target of a tuple whose parent has metadata is in the returned forest
\* exactly once, beneath that parent, also when several parents link it,
\* and it is not at top level.
C1_ChildOnceUnderParent ==
    (ReturnedForest /\ WellFormed) =>
        \A k \in LinkedTuples :
            /\ CountInForest(hierarchy, TargetOf(k)) = 1
            /\ TargetOf(k) \notin Range(IdsOfList(hierarchy))
            /\ \E n \in NodesOf(hierarchy) :
                  n.id = SourceOf(k) /\ TargetOf(k) \in Range(IdsOfList(n.items))

\* C2 (as claimed): no child list of the returned forest holds the same id
\* twice, also when a tuple (parent, child) is repeated.
C2_NoChildTwiceUnderParent ==
    ReturnedForest =>
        \A n \in NodesOf(hierarchy) :
            Cardinality(Range(IdsOfList(n.items))) = Len(n.items)

\* How often child is in the items list of the object of parent.
ItemsCount(parent, child) ==
    Cardinality({k \in 1..Len(work_items_dict[parent].items) :
                    work_items_dict[parent].items[k] = child})

C4_RootsAreNeverChildren ==
    ReturnedForest =>
        /\ Range(IdsOfList(hierarchy)) = MetadataIds \ TargetIds
        /\ Len(hierarchy) = Cardinality(MetadataIds \ TargetIds)

\* C4 witness: a forest with a root was returned, and an id with metadata
\* is kept from the top level by a tuple that could not be attached.
C4_Witness ==
    /\ ReturnedForest
    /\ hierarchy # <<>>
    /\ \E k \in TupleIndexes : k \notin LinkedTuples /\ HasMetadata(TargetOf(k))

\* C5: in a returned forest, an id with metadata that is a source and
\* never a target is a root, and every child the tuples declare for it
\* (with metadata) is directly beneath it.
C5_SourceOnlyIsRootWithChildren ==
    ReturnedForest =>
        \A id \in (MetadataIds \cap SourceIds) \ TargetIds :
            \E r \in 1..Len(hierarchy) :
                /\ hierarchy[r].id = id
                /\ \A k \in LinkedTuples :
                      SourceOf(k) = id => TargetOf(k) \in Range(IdsOfList(hierarchy[r].items))

\* C5 witness: a root with two different declared children was returned.
C5_Witness ==
    /\ ReturnedForest
    /\ \E r \in 1..Len(hierarchy) :
          /\ hierarchy[r].id \in SourceIds \ TargetIds
          /\ Cardinality(Range(IdsOfList(hierarchy[r].items))) = 2

\* C6 (as claimed, in the case it names): an id with metadata that is a
\* child only of parents without metadata is in the returned forest
\* exactly once.
C6_OrphanExactlyOnce ==
    ReturnedForest =>
        \A id \in MetadataIds \cap TargetIds :
            (\A k \in TupleIndexes : TargetOf(k) = id => ~HasMetadata(SourceOf(k)))
                => CountInForest(hierarchy, id) = 1

\* The rank table as the claims state it.
ClaimRank(type) ==
    CASE type = "Epic" -> 0
      [] type = "Feature" -> 1
      [] type = "User Story" -> 2
      [] type = "Task" -> 3
      [] OTHER -> 999
ClaimRanks == {0, 1, 2, 3, 999}

\* The types of a parent's children in the order the tuples introduce them.
ArrivalTypes(parent) ==
    [k \in 1..Len(ArrivalChildren(parent)) |-> remote[ArrivalChildren(parent)[k]]]

\* C7: in every list of the returned forest (the roots, and the children
\* of each node) no node precedes one of strictly lower rank, with
\* Epic=0, Feature=1, User Story=2, Task=3 and any other type 999; children
\* arriving as [Task, Epic, User Story, Feature] are returned as
\* [Epic, Feature, User Story, Task].
C7_ListsInRankOrder ==
    ReturnedForest =>
        /\ \A list \in OutputLists : \A i, j \in 1..Len(list) :
              i < j => ClaimRank(list[i].work_item_type) <= ClaimRank(list[j].work_item_type)
        /\ \A n \in NodesOf(hierarchy) :
              ArrivalTypes(n.id) = <<"Task", "Epic", "User Story", "Feature">>
                  => TypesOfList(n.items) = <<"Epic", "Feature", "User Story", "Task">>

\* C7 witness: children that arrived as [Task, Epic, User Story, Feature]
\* were returned as [Epic, Feature, User Story, Task].
C7_Witness ==
    /\ ReturnedForest
    /\ \E n \in NodesOf(hierarchy) :
          /\ ArrivalTypes(n.id) = <<"Task", "Epic", "User Story", "Feature">>
          /\ TypesOfList(n.items) = <<"Epic", "Feature", "User Story", "Task">>

\* The ids of a sequence whose type has rank r, in the order of the sequence.
RECURSIVE OfRank(_, _)
OfRank(ids, r) ==
    IF ids = <<>> THEN <<>>
    ELSE (IF ClaimRank(remote[Head(ids)]) = r THEN <<Head(ids)>> ELSE <<>>)
         \o OfRank(Tail(ids), r)

\* The roots in the order the relation tuples first mention them.
RECURSIVE RootsAmong(_)
RootsAmong(ids) ==
    IF ids = <<>> THEN <<>>
    ELSE (IF HasMetadata(Head(ids)) /\ Head(ids) \notin TargetIds
          THEN <<Head(ids)>> ELSE <<>>)
         \o RootsAmong(Tail(ids))
ArrivalRoots == RootsAmong(FirstMentions)

\* C8: the ordering is stable: in the returned forest the roots of one
\* rank, and the children of a node that have one rank, stand in the order
\* in which the relation tuples introduced them, whatever their types.
C8_SortIsStable ==
    ReturnedForest =>
        \A r \in ClaimRanks :
            /\ OfRank(IdsOfList(hierarchy), r) = OfRank(ArrivalRoots, r)
            /\ \A n \in NodesOf(hierarchy) :
                  OfRank(IdsOfList(n.items), r) = OfRank(ArrivalChildren(n.id), r)

\* C8 witness: children arrived as [Issue, Bug, Epic, Issue]; the Epic was
\* moved to the front and the three of rank 999 kept their arrival order.
C8_Witness ==
    /\ ReturnedForest
    /\ rows = Star
    /\ ArrivalTypes(1) = <<"Issue", "Bug", "Epic", "Issue">>
    /\ IdsOfList(hierarchy[1].items) = <<4, 2, 3, 5>>

\* The node the forest is expected to hold for an id.
Node(id, items) == [id |-> id, work_item_type |-> remote[id], items |-> items]

\* relations is the chain [(a,b),(b,c)] of three different ids with metadata.
IsChain(a, b, c) ==
    /\ Cardinality({a, b, c}) = 3
    /\ HasMetadata(a) /\ HasMetadata(b) /\ HasMetadata(c)
    /\ relations = <<<<a, b>>, <<b, c>>>>

\* C9: for a chain [(a,b),(b,c)] of ids with metadata the call returns
\* exactly one root a, whose only child is b, whose only child is c, which
\* has no children.
C9_ChainNestsRecursively ==
    pc = "done" =>
        \A a, b, c \in DOMAIN remote :
            IsChain(a, b, c) =>
                /\ returned = "json"
                /\ hierarchy = <<Node(a, <<Node(b, <<Node(c, <<>>)>>)>>)>>

\* C9 witness: the forest of a chain was returned, nested three deep.
C9_Witness ==
    /\ ReturnedForest
    /\ \E a, b, c \in DOMAIN remote :
          /\ IsChain(a, b, c)
          /\ hierarchy = <<Node(a, <<Node(b, <<Node(c, <<>>)>>)>>)>>

\* C10: only ids of relation tuples are ever visited: no other id gets an
\* object or is in the returned forest, whether or not the service holds
\* metadata for it, and when there is no relation tuple the call returns
\* the empty sequence.
C10_OnlyRelationIdsVisited ==
    /\ DOMAIN work_items_dict \subseteq RelationIds
    /\ ReturnedForest =>
          \A id \in DOMAIN remote :
              id \notin RelationIds => CountInForest(hierarchy, id) = 0
    /\ (pc = "done" /\ raised = "" /\ relations = <<>>) =>
          (returned = "json" /\ hierarchy = <<>>)

\* C10 witness: the response held no row, the service holds metadata of
\* two items, and the empty sequence was returned.
C10_Witness ==
    /\ ReturnedForest
    /\ rows = <<>>
    /\ Cardinality({id \in DOMAIN remote : HasMetadata(id)}) >= 2
    /\ hierarchy = <<>>

\* C11: a second call with the same relations and the same metadata
\* returns what the first returned: the same roots in the same order with
\* the same nested children; nothing of the first call is left in it.
C11_SecondCallDeepEqual ==
    (pc = "done" /\ earlier # <<>>) =>
        ((earlier[1].raised # "HTTPError" /\ raised # "HTTPError") =>
            /\ returned = earlier[1].returned
            /\ hierarchy = earlier[1].hierarchy)

\* C11 witness: two calls returned a forest with a nested child.
C11_Witness ==
    /\ ReturnedForest
    /\ earlier # <<>>
    /\ earlier[1].returned = "json"
    /\ \E n \in NodesOf(hierarchy) : n.items # <<>>

\* C12 (as claimed): whenever the query itself succeeded, the call returns
\* a sequence of root nodes, whatever the relation list and the metadata.
C12_AlwaysReturnsSequence ==
    (pc = "done" /\ raised # "HTTPError") => returned = "json"

\* C13: no step of a call changes an attribute of the client object.
C13_CallLeavesClientUnchanged == [][client' = client]_vars

\* C13 witness: a call on the client of project p returned a forest.
C13_Witness ==
    /\ ReturnedForest
    /\ hierarchy # <<>>
    /\ client = ClientOfProject(<<"p">>)

HasBackslash(s) == \E i \in 1..Len(s) : s[i] = "\\"

\* C15: when set_current_phase(p) has succeeded for a p without a backslash
\* and the next call, nothing else having written to the Documentation Epic,
\* is a get_current_phase that succeeds, that call returns p: whether the set
\* created the Epic or updated one.
C15_GetReturnsPhaseSet ==
    (/\ phase_prev.op = "set" /\ ~phase_prev.raised
     /\ ~HasBackslash(phase_prev.arg)
     /\ phase_last.op = "get" /\ ~phase_last.raised)
        => phase_last.result = phase_prev.arg

\* A set created the Epic and the get after it returned the phase.
C15_Witness ==
    /\ phase_prev.op = "set" /\ ~phase_prev.raised
    /\ phase_prev.before = <<>>
    /\ phase_prev.arg = <<"a">>
    /\ phase_last.op = "get" /\ phase_last.result = <<"a">>

\* A set updated the Epic there was and the get after it returned the phase.
C15_WitnessUpdate ==
    /\ phase_prev.op = "set" /\ ~phase_prev.raised
    /\ phase_prev.before = <<AreaPathOf(client.project_name, default_phase)>>
    /\ phase_prev.arg = <<"a", "a">>
    /\ phase_last.op = "get" /\ phase_last.result = <<"a", "a">>

\* ------------------------------------------------------------------ C16
\* What stands between the first backslash of a str and the next one, or
\* the end.
AfterFirstBackslash(s) ==
    LET first == CHOOSE i \in 1..Len(s) :
                     s[i] = "\\" /\ \A j \in 1..(i - 1) : s[j] # "\\"
        stops == {i \in (first + 1)..Len(s) : s[i] = "\\"} \cup {Len(s) + 1}
        stop  == CHOOSE i \in stops : \A j \in stops : i <= j
    IN  SubSeq(s, first + 1, stop - 1)

\* C16: a get_current_phase that succeeds, the project having no
\* Documentation Epic, leaves exactly one, with the area path
\* project\inception, and returns 'inception'; when there is one it leaves
\* the Epics as they are and, the area path of the first having a backslash,
\* returns what follows the first backslash.
C16_GetOrCreate ==
    (phase_last.op = "get" /\ ~phase_last.raised) =>
        IF phase_last.before = <<>>
        THEN /\ epics = <<client.project_name \o <<"\\">> \o default_phase>>
             /\ phase_last.result = default_phase
        ELSE /\ epics = phase_last.before
             /\ HasBackslash(epics[1]) =>
                    phase_last.result = AfterFirstBackslash(epics[1])

\* A get created the Epic, and a get after it found it.
C16_Witness ==
    /\ phase_prev.op = "get" /\ ~phase_prev.raised
    /\ phase_prev.before = <<>>
    /\ phase_last.op = "get" /\ ~phase_last.raised
    /\ Len(phase_last.before) = 1
    /\ phase_last.result = default_phase

\* A get found an Epic whose area path has two backslashes.
C16_WitnessSegments ==
    /\ phase_last.op = "get" /\ ~phase_last.raised
    /\ phase_last.before = <<AreaPathOf(client.project_name, <<"a", "\\">>)>>
    /\ phase_last.result = <<"a">>

\* ------------------------------------------------------------------ C17
\* The characters the claims call letters and digits.
IsLetter(c) == c \in {"a", "é"}
IsDigit(c) == c = "1"

\* A name as the claims describe a valid one: not empty, at most 64
\* characters, a letter first, and letters, digits, '-' and '_' only.
ValidAsClaimed(name) ==
    /\ name # <<>>
    /\ Len(name) <= 64
    /\ IsLetter(name[1])
    /\ \A i \in 1..Len(name) :
           IsLetter(name[i]) \/ IsDigit(name[i]) \/ name[i] \in {"-", "_"}

\* C17: create_project raises ValidationError when the name is invalid, and
\* raises ProjectError only when the creation of the project itself failed.
C17_RaisesAsDocumented ==
    cp_out.op = "create_project" =>
        /\ ~ValidAsClaimed(cp_out.arg) => cp_out.raised = "ValidationError"
        /\ cp_out.raised = "ProjectError" =>
               ValidAsClaimed(cp_out.arg) /\ cp_out.outcome # "ok"

\* ------------------------------------------------------------------ C18
\* C18 as stated: validate_project_name returns for a name if and only if
\* the name is not empty, has at most 64 characters, starts with a letter
\* and consists of letters, digits, hyphens and underscores only; for every
\* other name it raises ValidationError.
C18_AcceptsIffValid ==
    cp_out.op = "validate_project_name" =>
        /\ cp_out.raised \in {"", "ValidationError"}
        /\ cp_out.raised = "" <=> ValidAsClaimed(cp_out.arg)

\* A numeric character that is no digit, such as '½'.
IsOtherNumeric(c) == c = "½"

\* C18 amended: validate_project_name returns for a name if and only if the
\* name is not empty, has at most 64 characters, starts with a letter and
\* consists of letters, digits, other numeric characters, hyphens and
\* underscores only; for every other name it raises ValidationError.
C18_AcceptsIffAlphanumeric ==
    cp_out.op = "validate_project_name" =>
        /\ cp_out.raised \in {"", "ValidationError"}
        /\ cp_out.raised = "" <=>
              /\ cp_out.arg # <<>>
              /\ Len(cp_out.arg) <= 64
              /\ IsLetter(cp_out.arg[1])
              /\ \A i \in 1..Len(cp_out.arg) :
                     \/ IsLetter(cp_out.arg[i])
                     \/ IsDigit(cp_out.arg[i])
                     \/ IsOtherNumeric(cp_out.arg[i])
                     \/ cp_out.arg[i] \in {"-", "_"}

\* validate_project_name returned for the name 'a½'.
C18_Witness ==
    /\ cp_out.op = "validate_project_name"
    /\ cp_out.arg = <<"a", "½">>
    /\ cp_out.raised = ""

\* ------------------------------------------------------------------ C19
\* A getter called right after a setter returns what the setter was given.
RoundTrip(setter, getter) ==
    (agent_prev.op = setter /\ agent_last.op = getter) =>
        agent_last.raised = "" /\ agent_last.result = agent_prev.arg

\* C19: the agent utility functions round-trip: get_iteration() after
\* set_iteration(x) returns x, as get_project_name() after
\* set_project_name(x) and get_phase() after set_phase(x) do.
C19_UtilitiesRoundTrip ==
    /\ RoundTrip("set_iteration", "get_iteration")
    /\ RoundTrip("set_project_name", "get_project_name")
    /\ RoundTrip("set_phase", "get_phase")

\* The two round trips of C19 that hold.
ProjectNameAndPhaseRoundTrip ==
    /\ RoundTrip("set_project_name", "get_project_name")
    /\ RoundTrip("set_phase", "get_phase")

\* ------------------------------------------------------------------ C20
\* The folder a path names, and the folders above it.
FinalFolder(folder_path) == Strip(folder_path, "/")
FoldersAbove(folder_path) ==
    {SubSeq(FinalFolder(folder_path), 1, i - 1) :
        i \in {j \in 1..Len(FinalFolder(folder_path)) :
                  FinalFolder(folder_path)[j] = "/"}}

\* The name of a folder: what follows the last slash of its path.
RECURSIVE NameOf(_)
NameOf(path) ==
    IF \A i \in 1..Len(path) : path[i] # "/" THEN path
    ELSE NameOf(Tail(path))

\* The last call of add_folder succeeded, was given a description and found
\* no README.md in the last folder of the path.
AddedWithDescription ==
    /\ folder_last.op = "add_folder"
    /\ folder_last.result
    /\ folder_last.description # None
    /\ folder_last.description # <<>>
    /\ FinalFolder(folder_last.folder_path) \notin DOMAIN folder_last.before

\* C20: add_folder(folder_path, description) writes the description as the
\* README.md of the last folder of the path, at every depth and whichever
\* folders above it had to be created; those get the container text.
C20_FinalFolderGetsDescription ==
    AddedWithDescription =>
        LET final == FinalFolder(folder_last.folder_path)
        IN  /\ final \in DOMAIN repo_files
            /\ repo_files[final] = folder_last.description
            /\ \A q \in FoldersAbove(folder_last.folder_path) :
                   q \notin DOMAIN folder_last.before =>
                       /\ q \in DOMAIN repo_files
                       /\ repo_files[q] = ContainerText(NameOf(q))

\* What holds of C20: the description is written when every folder above the
\* last one is there already, and a folder above that is created gets the
\* container text.
DescriptionWrittenBelowExistingFolders ==
    AddedWithDescription =>
        LET final == FinalFolder(folder_last.folder_path)
            above == FoldersAbove(folder_last.folder_path)
        IN  /\ above \subseteq DOMAIN folder_last.before =>
                   repo_files[final] = folder_last.description
            /\ \A q \in above :
                   q \notin DOMAIN folder_last.before =>
                       repo_files[q] = ContainerText(NameOf(q))

\* ------------------------------------------------------------------ C21
\* The folders of a path: the last one and those above it.
FoldersOf(folder_path) ==
    FoldersAbove(folder_path) \cup {FinalFolder(folder_path)}

\* The paths the last call pushed a README.md for.
PushedPaths ==
    {folder_last.pushed[k].path : k \in 1..Len(folder_last.pushed)}

\* C21: a call of add_folder that succeeds pushes a README.md for exactly
\* the folders of the path that had none, each once, and leaves the other
\* files as they were; when every folder has one it pushes nothing and
\* returns True, so a second call with the same path changes nothing.
C21_OnlyMissingFoldersAdded ==
    (folder_last.op = "add_folder" /\ folder_last.result) =>
        LET missing == FoldersOf(folder_last.folder_path)
                           \ DOMAIN folder_last.before
        IN  /\ PushedPaths = missing
            /\ Len(folder_last.pushed) = Cardinality(missing)
            /\ DOMAIN repo_files = DOMAIN folder_last.before \cup missing
            /\ \A q \in DOMAIN folder_last.before :
                   repo_files[q] = folder_last.before[q]
            /\ (/\ folder_prev.op = "add_folder"
                /\ folder_prev.result
                /\ folder_prev.folder_path = folder_last.folder_path)
                   => /\ folder_last.pushed = <<>>
                      /\ repo_files = folder_last.before

\* add_folder('a/b') was called twice and succeeded twice: the first call
\* pushed both folders, the second nothing.
C21_Witness ==
    /\ folder_prev.op = "add_folder" /\ folder_prev.result
    /\ folder_prev.folder_path = <<"a", "/", "b">>
    /\ Len(folder_prev.pushed) = 2
    /\ folder_last.op = "add_folder" /\ folder_last.result
    /\ folder_last.folder_path = <<"a", "/", "b">>
    /\ folder_last.pushed = <<>>
    /\ DOMAIN repo_files = {<<"a">>, <<"a", "/", "b">>}

\* ------------------------------------------------------------------ C22
\* C22: the list list_user_teams returns holds teams of the user only, never
\* a team the user is no member of, and each team once.
C22_OnlyTeamsOfUser ==
    (teams_last.op = "list_user_teams" /\ teams_last.returned = "list") =>
        /\ \A k \in 1..Len(teams_last.result) :
               teams_last.result[k].id \in member_of
        /\ \A j, k \in 1..Len(teams_last.result) :
               j # k => teams_last.result[j].id # teams_last.result[k].id

\* What holds of C22: no team is in the list twice.
EachTeamOnce ==
    (teams_last.op = "list_user_teams" /\ teams_last.returned = "list") =>
        \A j, k \in 1..Len(teams_last.result) :
            j # k => teams_last.result[j].id # teams_last.result[k].id

\* ------------------------------------------------------------------ C23
\* The attempts made so far are 3 at most; True is returned by the first
\* iteration that removes the directory, the ones before it having failed;
\* False is returned after exactly 3 failed iterations; and in the two
\* methods only a removal that fails adds to attempt, a chmod that fails
\* does not.
AttemptsWithinLimit ==
    /\ fd_log.iterations <= 3
    /\ attempt <= fd_log.iterations
    /\ fd_result = "True" =>
           /\ fd_pc = "returned"
           /\ ~dir.exists
           /\ fd_log.iterations = attempt + 1
    /\ fd_result = "False" =>
           /\ fd_pc = "returned"
           /\ fd_log.iterations = 3
           /\ attempt = 3
    /\ fd_pc = "returned" => fd_result \in {"True", "False"}
    /\ fd_version \in {"AzureDevOpsProject", "GitHubClient"} =>
           attempt = fd_log.removals_failed

\* C23: force_delete_directory makes at most 3 attempts, returns True at the
\* first removal that succeeds and False only after exactly 3 failed ones,
\* and it always returns; in the methods a chmod that fails consumes no
\* attempt.
C23_AtMostThreeAttempts ==
    /\ []AttemptsWithinLimit
    /\ <>(fd_pc = "returned")

\* A method returned True at its third iteration, after two removals that
\* failed, a chmod having failed on the way.
C23_Witness ==
    /\ fd_version = "AzureDevOpsProject"
    /\ fd_result = "True"
    /\ attempt = 2
    /\ fd_log.iterations = 3
    /\ fd_log.chmods_failed = 3

\* The script of delete_repo.py returned False without a removal tried: a
\* chmod failed in each of its three iterations.
ScriptChmodConsumesAttempts ==
    ~(/\ fd_version = "delete_repo"
      /\ fd_result = "False"
      /\ fd_log.removals_failed = 0)

\* ------------------------------------------------------------------ C24
\* The ids reachable from id over the relation tuples as recorded, the
\* items having metadata or not.
RECURSIVE TupleReachFrom(_, _)
TupleReachFrom(frontier, seen) ==
    LET next == {TargetOf(k) : k \in {j \in TupleIndexes : SourceOf(j) \in frontier}} \ seen
    IN IF next = {} THEN seen ELSE TupleReachFrom(next, seen \cup next)
TupleDescendants(id) == TupleReachFrom({id}, {})
OnTupleCycle(id) == id \in TupleDescendants(id)

\* The call is at its end, the query having succeeded.
CallEnded == pc = "done" /\ raised # "HTTPError"

\* The call is never stuck before its end.
NotStuck == pc # "done" => ENABLED Next

\* No id of a cycle of relation tuples is a root, and one that no root
\* leads to is in no returned forest.
CycleNodesAreNotRoots ==
    CallEnded =>
        \A id \in RelationIds :
            OnTupleCycle(id) =>
                /\ id \notin Range(root_items)
                /\ (ReturnedForest /\ \A r \in Range(root_items) : id \notin TupleDescendants(r))
                       => CountInForest(hierarchy, id) = 0

\* C24 (as claimed): with a cycle in the relation tuples the call ends; the
\* nodes of a cycle no root leads to are non-roots and absent from the
\* output; when a root leads to the cycle the call returns None.
C24_CycleUnderRootReturnsNone ==
    /\ NotStuck
    /\ CycleNodesAreNotRoots
    /\ CallEnded =>
           ((\E r \in Range(root_items), id \in RelationIds :
                 OnTupleCycle(id) /\ id \in TupleDescendants(r))
               => (returned = "None" /\ raised = "RecursionError"))

\* C24 (amended): the call returns None exactly when a root leads, over
\* tuples whose two items both have metadata, to a cycle of such tuples; a
\* cycle through an item without metadata is never built, and the forest is
\* returned.
C24_BuiltCycleUnderRootReturnsNone ==
    /\ NotStuck
    /\ CycleNodesAreNotRoots
    /\ CallEnded =>
           IF \E r \in Range(root_items), id \in RelationIds :
                  OnCycle(id) /\ id \in Descendants(r)
           THEN returned = "None" /\ raised = "RecursionError"
           ELSE returned = "json"

\* C24 witness: a root leads to an item that is its own child, both have
\* metadata, and the call returned None.
C24_Witness ==
    /\ pc = "done"
    /\ returned = "None"
    /\ raised = "RecursionError"
    /\ \E r \in Range(root_items), id \in RelationIds :
           /\ id # r
           /\ OnCycle(id)
           /\ id \in Descendants(r)

\* Two items that are each other's child, both with metadata, and no
\* root: the empty forest was returned.
CycleWithoutRoot ==
    /\ ReturnedForest
    /\ hierarchy = <<>>
    /\ \E a, b \in RelationIds :
           a # b /\ HasMetadata(a) /\ HasMetadata(b) /\ b \in Descendants(a) /\ a \in Descendants(b)

\* ------------------------------------------------------------------ C25
\* The rows the loop has looked at so far.
RowsSeen == {k \in 1..Len(rows) : k < idx}
SourcelessRows == {k \in RowsSeen : rows[k].source = NoSource}
SourcedRows == RowsSeen \ SourcelessRows
SourcedIds == {rows[k].source : k \in SourcedRows} \cup {rows[k].target : k \in SourcedRows}

\* The tuples of the rows of index k and above that have a source, in order.
RECURSIVE TuplesOfRowsFrom(_)
TuplesOfRowsFrom(k) ==
    IF k \notin RowsSeen THEN <<>>
    ELSE (IF rows[k].source # NoSource
          THEN <<(<<rows[k].source, rows[k].target>>)>> ELSE <<>>)
         \o TuplesOfRowsFrom(k + 1)

\* C25: a row without a source is ignored: the relation tuples are those of
\* the rows that have a source, only their ids are fetched, only their
\* targets are marked as children, and an item that occurs in rows without
\* a source only is in no returned forest.
C25_SourcelessRowsIgnored ==
    /\ relations = TuplesOfRowsFrom(1)
    /\ Range(dict_keys) \subseteq SourcedIds
    /\ DOMAIN work_items_dict \subseteq SourcedIds
    /\ child_items \subseteq {rows[k].target : k \in SourcedRows}
    /\ ReturnedForest =>
           \A k \in SourcelessRows :
               rows[k].target \notin SourcedIds =>
                   CountInForest(hierarchy, rows[k].target) = 0

\* C25 witness: a forest was returned for a response with a row without a
\* source, whose target has metadata and is in no other row, and a row with
\* a source.
C25_Witness ==
    /\ ReturnedForest
    /\ hierarchy # <<>>
    /\ SourcedRows # {}
    /\ \E k \in SourcelessRows :
           /\ rows[k].target \notin SourcedIds
           /\ HasMetadata(rows[k].target)

\* ------------------------------------------------------------------ C26
\* create_project was called, and with a name validate_project_name refuses.
CreateProjectCalled == cp_out.op = "create_project"
InvalidNameGiven == CreateProjectCalled /\ validate_project_name(cp_out.arg) # ""

NamesOf(self) == <<self.project_name, self.team_name, self.repo_name>>

\* C26: create_project with an invalid name leaves project_name, team_name
\* and repo_name as they were and queues no project; a call that changed
\* one of them was given a valid name.
C26_InvalidNameChangesNothing ==
    /\ InvalidNameGiven =>
           /\ NamesOf(client) = NamesOf(cp_out.before)
           /\ client = cp_out.before
           /\ cp_out.queued = {}
           /\ cp_out.arg \in projects => cp_out.arg = cp_out.before.project_name
           /\ cp_out.raised = "ProjectError"
    /\ (CreateProjectCalled /\ NamesOf(client) # NamesOf(cp_out.before)) =>
           /\ validate_project_name(cp_out.arg) = ""
           /\ cp_out.outcome # "template_error"
           /\ client.project_name = cp_out.arg

\* C26 witness: the client of project p was asked to create a project with
\* a name that does not start with a letter, and is still the client of p.
C26_Witness ==
    /\ InvalidNameGiven
    /\ cp_out.arg # <<>>
    /\ ~isalpha(cp_out.arg[1])
    /\ cp_out.before = ClientOfProject(<<"p">>)
    /\ client = ClientOfProject(<<"p">>)
    /\ projects = {<<"p">>}

\* Not an invariant: a call with a valid name overwrites the names also
\* when it queues no project, queue_create_project having raised.
NamesKeptWhenNothingQueued ==
    (CreateProjectCalled /\ cp_out.queued = {}) =>
        NamesOf(client) = NamesOf(cp_out.before)

\* ------------------------------------------------------------------ C27
\* transfer_to_product_owner was called and returned an agent.
Transferred == transfer_last.op = "transfer_to_product_owner" /\ transfer_last.raised = ""

\* The phase stored in the Documentation Epic: None when there is no Epic
\* or its area path has no phase.
StoredPhase(query_results) ==
    IF query_results = <<>> THEN None ELSE PhaseOfAreaPath(query_results[1])

\* The three phases that have a product owner of their own.
OwnedPhases == {default_phase, planning, development}

IsName(ph) == ph # None /\ ph # <<>>

\* A stored phase that is exactly one of the three: its agent is returned
\* and it is still the stored phase afterwards.
ExactPhaseKeepsPhase ==
    (Transferred /\ StoredPhase(transfer_last.before) \in OwnedPhases) =>
        /\ transfer_last.key = StoredPhase(transfer_last.before)
        /\ StoredPhase(transfer_last.after) = StoredPhase(transfer_last.before)

\* The fallback: the inception agent is returned and nothing is written.
FellBack ==
    /\ transfer_last.key = None
    /\ transfer_last.wrote = None
    /\ transfer_last.after = transfer_last.before

\* C27 (as claimed): a stored phase that is exactly 'inception', 'planning'
\* or 'development' selects its agent and stays; a stored phase that is a
\* non-empty name contained in none of the three selects the inception
\* agent and no phase is written.
C27_AgentOfStoredPhase ==
    /\ ExactPhaseKeepsPhase
    /\ (/\ Transferred
        /\ IsName(StoredPhase(transfer_last.before))
        /\ \A key \in OwnedPhases :
               ~IsSubstring(StoredPhase(transfer_last.before), key))
           => FellBack

\* C27 (amended): the same, the stored phase being compared in lower case:
\* the fallback is taken when the lower-case form of the stored phase is
\* contained in none of the three.
C27_AgentOfLoweredStoredPhase ==
    /\ ExactPhaseKeepsPhase
    /\ (/\ Transferred
        /\ IsName(StoredPhase(transfer_last.before))
        /\ \A key \in OwnedPhases :
               ~IsSubstring(Lower(StoredPhase(transfer_last.before)), key))
           => FellBack

\* C27 witness: the stored phase was 'development' and the development
\* agent was returned, the phase written being the stored one.
C27_Witness ==
    /\ Transferred
    /\ StoredPhase(transfer_last.before) = development
    /\ transfer_last.key = development
    /\ transfer_last.wrote = development
    /\ StoredPhase(transfer_last.after) = development

\* The stored phase was 'release': the fallback was taken.
ReleaseFallsBack ==
    /\ Transferred
    /\ StoredPhase(transfer_last.before) = release
    /\ FellBack

\* The stored phase was 'Planning': the planning agent was returned and
\* 'planning' is stored.
PlanningRewritten ==
    /\ Transferred
    /\ StoredPhase(transfer_last.before) = Planning
    /\ transfer_last.key = planning
    /\ StoredPhase(transfer_last.after) = planning

====
